---- MODULE Spec2Model ----
(***************************************************************************)
(* Model of the dbent crate: the Key newtype, the Keyed / Label / Tagged   *)
(* traits and the Entity, EntityLabel and Many enums (src/src/lib.rs).     *)
(*                                                                         *)
(* The crate has no global state: its state is a value of one of its enum  *)
(* types held in a field by its owner (as `model2.model1` in the tests).   *)
(* The model follows one such field.  `ftype` is the field's declared enum *)
(* and `tparam` its record type parameter T; both are fixed by the         *)
(* declaration.  `field` is the value currently stored, `replaced` the     *)
(* owner's last replacement of it (operation and argument) and `last` the  *)
(* last call: its name, its receiver (the value before the call), its      *)
(* argument and what it returned.                                          *)
(*                                                                         *)
(* The dbent-derive crate (src/dbent-derive/src/lib.rs) is a second        *)
(* program, followed by SpecDerive: `input` is the declaration handed to   *)
(* the derive macros and `output` the last generation call and its result. *)
(***************************************************************************)
EXTENDS Integers, Sequences, FiniteSets, TLC

VARIABLES ftype, tparam, field, replaced, last, input, output

vars == <<ftype, tparam, field, replaced, last, input, output>>

\* Largest identifier value of K = Int drawn as an input.
MaxKey == 1
\* Longest Vec<T> drawn as an input of Many.
MaxLen == 2

\* ------------------------------------------------------------------------
\* Option<K>, Result<T>, Error
\* ------------------------------------------------------------------------

\* Option::None: the empty tuple, so that it differs from Some(0).
None == <<>>

Some(v) == <<v>>

is_some(opt) == opt # None

Ok(v) == [ok |-> TRUE, val |-> v]

Err(e) == [ok |-> FALSE, err |-> e]

Errors ==
  {"EntityEmpty", "EntityLabelEmpty", "EntityNotFetched",
   "EntityLabelNotFetched", "ManyEmpty", "ManyNotFetched"}

\* ------------------------------------------------------------------------
\* Key<K>, K = Int
\* ------------------------------------------------------------------------

K == 0..MaxKey

Options == {None} \cup {Some(v) : v \in K}

\* The tuple struct Key(pub Option<K>): a 1-tuple holding the option.
Key(opt) == <<opt>>

Key_new(value) == Key(Some(value))

Key_from(value) == Key(value)

\* Key_from_ref with the absent option replaced by K's default value.
Key_from_ref_or_default(value) ==
  IF value = None THEN Key(Some(0)) ELSE Key(Some(value[1]))

\* value.as_ref().cloned(): None stays None, Some(&v) becomes Some(v.clone()).
Key_from_ref(value) == IF value = None THEN Key(None) ELSE Key(Some(value[1]))

\* #[derive(Default)] on Key: Option's default, None.
Key_default == Key(None)

Key_deref(key) == key[1]

Keys == {Key_from(o) : o \in Options}

Digit(d) == <<"0", "1", "2", "3", "4", "5", "6", "7", "8", "9">>[d + 1]

RECURSIVE Int_to_string(_)
\* Display of usize: the decimal digits, most significant first.
Int_to_string(n) ==
  IF n < 10 THEN Digit(n) ELSE Int_to_string(n \div 10) \o Digit(n % 10)

\* impl Display for Key.
Key_fmt(key) ==
  IF key[1] = None THEN "None" ELSE Int_to_string(key[1][1])

\* ------------------------------------------------------------------------
\* Records (the type parameter T) and the enums
\* ------------------------------------------------------------------------

\* Label values, L = String.
Labels == {"Data", "Data2"}

\* A struct with `id: Key<Int>` first and a #[label] String field, with the
\* derived Keyed and Label implementations.
Model(id, label) == [type |-> "Model", id |-> id, label |-> label]

Models == {Model(k, l) : k \in Keys, l \in Labels}

\* Any other implementor of Keyed and Label: the traits let key() and
\* label() each return Ok or an Error, independently.
Custom(kr, lr) == [type |-> "Custom", key |-> kr, label |-> lr]

\* The errors drawn for the implementors' failures.
CustomErrors == {"EntityEmpty", "EntityLabelEmpty"}

Customs ==
  {Custom(kr, lr) :
     kr \in {Ok(k) : k \in Keys} \cup {Err(e) : e \in CustomErrors},
     lr \in {Ok(l) : l \in Labels} \cup {Err(e) : e \in CustomErrors}}

\* Box<T>: the heap cell owning the record.
Box(r) == [boxed |-> r]

Unbox(b) == b.boxed

Entity_Key(key) == [type |-> "Entity", variant |-> "Key", key |-> key]

Entity_Data(b) == [type |-> "Entity", variant |-> "Data", data |-> b]

Entity_None == [type |-> "Entity", variant |-> "None"]

EntityLabel_KeyLabel(key, label) ==
  [type |-> "EntityLabel", variant |-> "KeyLabel", key |-> key, label |-> label]

EntityLabel_Data(b) == [type |-> "EntityLabel", variant |-> "Data", data |-> b]

EntityLabel_None == [type |-> "EntityLabel", variant |-> "None"]

Many_Data(vec) == [type |-> "Many", variant |-> "Data", data |-> vec]

Many_NotFetched == [type |-> "Many", variant |-> "NotFetched"]

Many_None == [type |-> "Many", variant |-> "None"]

\* Many's #[default] put on its NotFetched variant.
Many_default_not_fetched == Many_NotFetched

\* #[default] marks the None variant of each enum.
Many_default == Many_None

Entity_default == Entity_None

EntityLabel_default == EntityLabel_None

\* ------------------------------------------------------------------------
\* Keyed, Label, Tagged
\* ------------------------------------------------------------------------

RECURSIVE T_key(_), T_label(_)

\* Entity_key taking a Key variant without a value for an empty Entity.
Entity_key_absent_is_empty(self) ==
  CASE self.variant = "Key" ->
         IF is_some(Key_deref(self.key)) THEN Ok(self.key)
         ELSE Err("EntityEmpty")
    [] self.variant = "Data" -> T_key(Unbox(self.data))
    [] self.variant = "None" -> Err("EntityEmpty")

\* Entity_key answering a failure of the record's key() with the absent Key.
Entity_key_failure_as_absent(self) ==
  CASE self.variant = "Key" -> Ok(self.key)
    [] self.variant = "Data" ->
         IF T_key(Unbox(self.data)).ok THEN T_key(Unbox(self.data))
         ELSE Ok(Key(None))
    [] self.variant = "None" -> Err("EntityEmpty")

\* impl Keyed for Entity.
Entity_key(self) ==
  CASE self.variant = "Key" -> Ok(self.key)
    [] self.variant = "Data" -> T_key(Unbox(self.data))
    [] self.variant = "None" -> Err("EntityEmpty")

\* impl Keyed for EntityLabel.
EntityLabel_key(self) ==
  CASE self.variant = "KeyLabel" -> Ok(self.key)
    [] self.variant = "Data" -> T_key(Unbox(self.data))
    [] self.variant = "None" -> Err("EntityLabelEmpty")

\* EntityLabel_label failing with Entity's error in the None variant.
EntityLabel_label_entity_error(self) ==
  CASE self.variant = "KeyLabel" -> Ok(self.label)
    [] self.variant = "Data" -> T_label(Unbox(self.data))
    [] self.variant = "None" -> Err("EntityEmpty")

\* impl Label for EntityLabel.
EntityLabel_label(self) ==
  CASE self.variant = "KeyLabel" -> Ok(self.label)
    [] self.variant = "Data" -> T_label(Unbox(self.data))
    [] self.variant = "None" -> Err("EntityLabelEmpty")

\* Keyed::key of a value of type T, by the implementation of its type.
T_key(r) ==
  CASE r.type = "Model" -> Ok(r.id)
    [] r.type = "Custom" -> r.key
    [] r.type = "Entity" -> Entity_key(r)
    [] r.type = "EntityLabel" -> EntityLabel_key(r)

\* Label::label of a value of type T, by the implementation of its type.
T_label(r) ==
  CASE r.type = "Model" -> Ok(r.label)
    [] r.type = "Custom" -> r.label
    [] r.type = "EntityLabel" -> EntityLabel_label(r)

\* Display of String: the string itself.
String_to_string(s) == s

\* tag with a failure of label() turned into an empty label.
tag_label_swallowed(self) ==
  LET k == T_key(self) IN
  IF ~k.ok THEN Err(k.err)
  ELSE LET l == T_label(self) IN
       Ok([key |-> Key_fmt(k.val),
           label |-> IF l.ok THEN String_to_string(l.val) ELSE ""])

\* Tagged::tag: `?` returns the first failure, of key() then of label().
tag(self) ==
  LET k == T_key(self) IN
  IF ~k.ok THEN Err(k.err)
  ELSE LET l == T_label(self) IN
       IF ~l.ok THEN Err(l.err)
       ELSE Ok([key |-> Key_fmt(k.val), label |-> String_to_string(l.val)])

\* has_tag true whenever key() succeeds, its Key absent or not.
has_tag_key_ok(self) == T_key(self).ok

\* Tagged::has_tag: key().map(|v| v.is_some()).unwrap_or(false).
has_tag(self) ==
  LET k == T_key(self) IN
  IF k.ok THEN is_some(Key_deref(k.val)) ELSE FALSE

\* ------------------------------------------------------------------------
\* Entity
\* ------------------------------------------------------------------------

Key_into_entity(self) == Entity_Key(self)

\* self.clone() of a Key is an equal Key.
Key_to_entity(self) == Entity_Key(self)

Entity_from(entity) == Entity_Data(Box(entity))

Entity_data(self) ==
  CASE self.variant = "Data" -> Ok(Unbox(self.data))
    [] self.variant = "Key" -> Err("EntityNotFetched")
    [] self.variant = "None" -> Err("EntityEmpty")

\* Entity_data_mut with the two errors exchanged.
Entity_data_mut_swapped(self) ==
  CASE self.variant = "Data" -> Ok(Unbox(self.data))
    [] self.variant = "Key" -> Err("EntityEmpty")
    [] self.variant = "None" -> Err("EntityNotFetched")

Entity_data_mut(self) ==
  CASE self.variant = "Data" -> Ok(Unbox(self.data))
    [] self.variant = "Key" -> Err("EntityNotFetched")
    [] self.variant = "None" -> Err("EntityEmpty")

Entity_is_key(self) == self.variant = "Key"

Entity_is_data(self) == self.variant = "Data"

Entity_is_none(self) == self.variant = "None"

\* ------------------------------------------------------------------------
\* EntityLabel
\* ------------------------------------------------------------------------

EntityLabel_from(entity) == EntityLabel_Data(Box(entity))

\* EntityLabel_data failing with Entity's error in the KeyLabel variant.
EntityLabel_data_entity_error(self) ==
  CASE self.variant = "Data" -> Ok(Unbox(self.data))
    [] self.variant = "KeyLabel" -> Err("EntityNotFetched")
    [] self.variant = "None" -> Err("EntityLabelEmpty")

EntityLabel_data(self) ==
  CASE self.variant = "Data" -> Ok(Unbox(self.data))
    [] self.variant = "KeyLabel" -> Err("EntityLabelNotFetched")
    [] self.variant = "None" -> Err("EntityLabelEmpty")

EntityLabel_data_mut(self) ==
  CASE self.variant = "Data" -> Ok(Unbox(self.data))
    [] self.variant = "KeyLabel" -> Err("EntityLabelNotFetched")
    [] self.variant = "None" -> Err("EntityLabelEmpty")

EntityLabel_is_keylabel(self) == self.variant = "KeyLabel"

EntityLabel_is_data(self) == self.variant = "Data"

EntityLabel_is_none(self) == self.variant = "None"

\* ------------------------------------------------------------------------
\* Many
\* ------------------------------------------------------------------------

\* Many_from taking the empty vector for no data.
Many_from_empty_is_none(entities) ==
  IF entities = <<>> THEN Many_None ELSE Many_Data(entities)

Many_from(entities) == Many_Data(entities)

\* Many_data with NotFetched reported as ManyEmpty.
Many_data_conflated(self) ==
  CASE self.variant = "Data" -> Ok(self.data)
    [] self.variant = "NotFetched" -> Err("ManyEmpty")
    [] self.variant = "None" -> Err("ManyEmpty")

Many_data(self) ==
  CASE self.variant = "Data" -> Ok(self.data)
    [] self.variant = "NotFetched" -> Err("ManyNotFetched")
    [] self.variant = "None" -> Err("ManyEmpty")

Many_data_mut(self) ==
  CASE self.variant = "Data" -> Ok(self.data)
    [] self.variant = "NotFetched" -> Err("ManyNotFetched")
    [] self.variant = "None" -> Err("ManyEmpty")

Many_is_data(self) == self.variant = "Data"

Many_is_not_fetched(self) == self.variant = "NotFetched"

Many_is_none(self) == self.variant = "None"

\* ------------------------------------------------------------------------
\* The field, its owner's operations on it, and the calls made on it
\* ------------------------------------------------------------------------

\* Filler of `last` for a call without argument or receiver.
NoVal == [none |-> TRUE]

Call(op, self, arg, res) == [op |-> op, self |-> self, arg |-> arg, res |-> res]

\* The values of the record type T of the field's declaration.
Records ==
  CASE tparam = "Model" -> Models
    [] tparam = "Custom" -> Customs
    [] tparam = "Entity" ->
         {Entity_Key(k) : k \in Keys} \cup {Entity_None}
           \cup {Entity_Data(Box(m)) : m \in Models}
    [] tparam = "EntityLabel" ->
         {EntityLabel_KeyLabel(k, l) : k \in Keys, l \in Labels}
           \cup {EntityLabel_None}
           \cup {EntityLabel_Data(Box(m)) : m \in Models}
    [] OTHER -> {}

\* The element values drawn for the vectors of a Many<Int>.
VecElems == {1, 2}

\* The vectors of a Many<Int>, up to MaxLen elements.
Vecs == UNION {[1..n -> VecElems] : n \in 0..MaxLen}

\* The declarations followed: Entity<Int, T>, EntityLabel<Int, T, String>
\* for a record type T with the traits the enum's impls ask for, Many<Int>.
Declarations ==
  {<<"Entity", "Model">>, <<"Entity", "Custom">>, <<"Entity", "Entity">>,
   <<"EntityLabel", "Model">>, <<"EntityLabel", "Custom">>,
   <<"EntityLabel", "EntityLabel">>,
   <<"Many", "Int">>}

Default(ft) ==
  CASE ft = "Entity" -> Entity_default
    [] ft = "EntityLabel" -> EntityLabel_default
    [] ft = "Many" -> Many_default

Init ==
  /\ \E d \in Declarations : ftype = d[1] /\ tparam = d[2]
  /\ field = Default(ftype)
  /\ replaced = [op |-> "default", arg |-> NoVal]
  /\ last = Call("default", NoVal, NoVal, field)
  /\ input = NoVal
  /\ output = NoVal

\* An operation of the owner that stores `value` in the field.
Replace(op, arg, value) ==
  /\ field' = value
  /\ replaced' = [op |-> op, arg |-> arg]
  /\ last' = Call(op, field, arg, value)
  /\ UNCHANGED <<ftype, tparam, input, output>>

\* A call that only reads its receiver.
Read(op, self, arg, res) ==
  /\ last' = Call(op, self, arg, res)
  /\ UNCHANGED <<ftype, tparam, field, replaced, input, output>>

\* ---- Key ----

CallKeyNew == \E v \in K : Read("Key::new", NoVal, v, Key_new(v))

CallKeyFrom == \E o \in Options : Read("Key::from", NoVal, o, Key_from(o))

CallKeyFromRef ==
  \E o \in Options : Read("Key::from_ref", NoVal, o, Key_from_ref(o))

CallKeyDefault == Read("Key::default", NoVal, NoVal, Key_default)

CallKeyDeref == \E k \in Keys : Read("Key::deref", k, NoVal, Key_deref(k))

CallKeyFmt == \E k \in Keys : Read("Key::fmt", k, NoVal, Key_fmt(k))

\* ---- Entity ----

\* field = key.into_entity()
KeyIntoEntity ==
  /\ ftype = "Entity"
  /\ \E k \in Keys : Replace("Key::into_entity", k, Key_into_entity(k))

\* field = key.to_entity()
KeyToEntity ==
  /\ ftype = "Entity"
  /\ \E k \in Keys : Replace("Key::to_entity", k, Key_to_entity(k))

\* field = record.into()
EntityFrom ==
  /\ ftype = "Entity"
  /\ \E r \in Records : Replace("Entity::from", r, Entity_from(r))

\* field = Entity::None
EntitySetNone ==
  /\ ftype = "Entity"
  /\ Replace("Entity::None", NoVal, Entity_None)

\* field = Entity::default()
EntitySetDefault ==
  /\ ftype = "Entity"
  /\ Replace("Entity::default", NoVal, Entity_default)

CallEntityKey ==
  /\ ftype = "Entity"
  /\ Read("Entity::key", field, NoVal, Entity_key(field))

CallEntityData ==
  /\ ftype = "Entity"
  /\ Read("Entity::data", field, NoVal, Entity_data(field))

\* CallEntityDataMut with data_mut() taking the record out of the field.
CallEntityDataMut_take ==
  /\ ftype = "Entity"
  /\ \E w \in Records :
       LET res == Entity_data_mut(field) IN
       /\ last' = Call("Entity::data_mut", field, w, res)
       /\ field' = IF res.ok THEN Entity_None ELSE field
  /\ UNCHANGED <<ftype, tparam, replaced, input, output>>

\* field.data_mut(), and on success a write of `w` through the reference.
CallEntityDataMut ==
  /\ ftype = "Entity"
  /\ \E w \in Records :
       LET res == Entity_data_mut(field) IN
       /\ last' = Call("Entity::data_mut", field, w, res)
       /\ field' = IF res.ok THEN [field EXCEPT !.data.boxed = w] ELSE field
  /\ UNCHANGED <<ftype, tparam, replaced, input, output>>

CallEntityIsKey ==
  /\ ftype = "Entity"
  /\ Read("Entity::is_key", field, NoVal, Entity_is_key(field))

CallEntityIsData ==
  /\ ftype = "Entity"
  /\ Read("Entity::is_data", field, NoVal, Entity_is_data(field))

CallEntityIsNone ==
  /\ ftype = "Entity"
  /\ Read("Entity::is_none", field, NoVal, Entity_is_none(field))

\* ---- EntityLabel ----

\* field = EntityLabel::KeyLabel(key, label)
EntityLabelSetKeyLabel ==
  /\ ftype = "EntityLabel"
  /\ \E k \in Keys, l \in Labels :
       Replace("EntityLabel::KeyLabel", <<k, l>>, EntityLabel_KeyLabel(k, l))

\* field = record.into()
EntityLabelFrom ==
  /\ ftype = "EntityLabel"
  /\ \E r \in Records : Replace("EntityLabel::from", r, EntityLabel_from(r))

\* field = EntityLabel::None
EntityLabelSetNone ==
  /\ ftype = "EntityLabel"
  /\ Replace("EntityLabel::None", NoVal, EntityLabel_None)

\* field = EntityLabel::default()
EntityLabelSetDefault ==
  /\ ftype = "EntityLabel"
  /\ Replace("EntityLabel::default", NoVal, EntityLabel_default)

CallEntityLabelKey ==
  /\ ftype = "EntityLabel"
  /\ Read("EntityLabel::key", field, NoVal, EntityLabel_key(field))

CallEntityLabelLabel ==
  /\ ftype = "EntityLabel"
  /\ Read("EntityLabel::label", field, NoVal, EntityLabel_label(field))

CallEntityLabelData ==
  /\ ftype = "EntityLabel"
  /\ Read("EntityLabel::data", field, NoVal, EntityLabel_data(field))

\* field.data_mut(), and on success a write of `w` through the reference.
CallEntityLabelDataMut ==
  /\ ftype = "EntityLabel"
  /\ \E w \in Records :
       LET res == EntityLabel_data_mut(field) IN
       /\ last' = Call("EntityLabel::data_mut", field, w, res)
       /\ field' = IF res.ok THEN [field EXCEPT !.data.boxed = w] ELSE field
  /\ UNCHANGED <<ftype, tparam, replaced, input, output>>

CallEntityLabelIsKeylabel ==
  /\ ftype = "EntityLabel"
  /\ Read("EntityLabel::is_keylabel", field, NoVal,
          EntityLabel_is_keylabel(field))

CallEntityLabelIsData ==
  /\ ftype = "EntityLabel"
  /\ Read("EntityLabel::is_data", field, NoVal, EntityLabel_is_data(field))

CallEntityLabelIsNone ==
  /\ ftype = "EntityLabel"
  /\ Read("EntityLabel::is_none", field, NoVal, EntityLabel_is_none(field))

\* ---- Tagged ----

\* The values in the field that implement Keyed and Label: the EntityLabel
\* itself and, through data(), the record it holds.
Taggeds ==
  IF ftype # "EntityLabel" THEN {}
  ELSE {field} \cup
       (IF field.variant = "Data" THEN {Unbox(field.data)} ELSE {})

CallTag == \E r \in Taggeds : Read("Tagged::tag", r, NoVal, tag(r))

CallHasTag == \E r \in Taggeds : Read("Tagged::has_tag", r, NoVal, has_tag(r))

\* ---- Many ----

\* field = vec.into()
ManyFrom ==
  /\ ftype = "Many"
  /\ \E s \in Vecs : Replace("Many::from", s, Many_from(s))

\* field = Many::NotFetched
ManySetNotFetched ==
  /\ ftype = "Many"
  /\ Replace("Many::NotFetched", NoVal, Many_NotFetched)

\* field = Many::None
ManySetNone ==
  /\ ftype = "Many"
  /\ Replace("Many::None", NoVal, Many_None)

\* field = Many::default()
ManySetDefault ==
  /\ ftype = "Many"
  /\ Replace("Many::default", NoVal, Many_default)

CallManyData ==
  /\ ftype = "Many"
  /\ Read("Many::data", field, NoVal, Many_data(field))

\* field.data_mut(), and on success a write of `w` through the reference.
CallManyDataMut ==
  /\ ftype = "Many"
  /\ \E w \in Vecs :
       LET res == Many_data_mut(field) IN
       /\ last' = Call("Many::data_mut", field, w, res)
       /\ field' = IF res.ok THEN [field EXCEPT !.data = w] ELSE field
  /\ UNCHANGED <<ftype, tparam, replaced, input, output>>

CallManyIsData ==
  /\ ftype = "Many"
  /\ Read("Many::is_data", field, NoVal, Many_is_data(field))

CallManyIsNotFetched ==
  /\ ftype = "Many"
  /\ Read("Many::is_not_fetched", field, NoVal, Many_is_not_fetched(field))

CallManyIsNone ==
  /\ ftype = "Many"
  /\ Read("Many::is_none", field, NoVal, Many_is_none(field))

Next ==
  \/ CallKeyNew \/ CallKeyFrom \/ CallKeyFromRef \/ CallKeyDefault
  \/ CallKeyDeref \/ CallKeyFmt
  \/ KeyIntoEntity \/ KeyToEntity \/ EntityFrom \/ EntitySetNone
  \/ EntitySetDefault
  \/ CallEntityKey \/ CallEntityData \/ CallEntityDataMut
  \/ CallEntityIsKey \/ CallEntityIsData \/ CallEntityIsNone
  \/ EntityLabelSetKeyLabel \/ EntityLabelFrom \/ EntityLabelSetNone
  \/ EntityLabelSetDefault
  \/ CallEntityLabelKey \/ CallEntityLabelLabel \/ CallEntityLabelData
  \/ CallEntityLabelDataMut
  \/ CallEntityLabelIsKeylabel \/ CallEntityLabelIsData
  \/ CallEntityLabelIsNone
  \/ CallTag \/ CallHasTag
  \/ ManyFrom \/ ManySetNotFetched \/ ManySetNone \/ ManySetDefault
  \/ CallManyData \/ CallManyDataMut
  \/ CallManyIsData \/ CallManyIsNotFetched \/ CallManyIsNone

Spec == Init /\ [][Next]_vars

\* ------------------------------------------------------------------------
\* dbent-derive: the declarations handed to the derive macros
\* ------------------------------------------------------------------------

\* Most fields drawn for a struct declaration.
MaxFields == 2

\* syn::PathArguments
PathArguments_None == [kind |-> "None"]

PathArguments_AngleBracketed(args) == [kind |-> "AngleBracketed", args |-> args]

\* syn::GenericArgument
GenericArgument_Type(ty) == [kind |-> "Type", ty |-> ty]

GenericArgument_Lifetime(name) == [kind |-> "Lifetime", name |-> name]

PathSegment(ident, arguments) == [ident |-> ident, arguments |-> arguments]

\* syn::Type::Path, by the segments of its path.
Type_Path(segments) == [kind |-> "Path", segments |-> segments]

\* syn::Type::Reference, a type that is no path.
Type_Reference(elem) == [kind |-> "Reference", elem |-> elem]

\* A plain named type, as `Int` or `String`.
Named(ident) == Type_Path(<<PathSegment(ident, PathArguments_None)>>)

\* The declared field types drawn: Key<Int>, dbent::Key<String>, Key,
\* Key<>, Key<Int, String>, Key<'a>, String, &str.
Types ==
  {Type_Path(<<PathSegment("Key",
       PathArguments_AngleBracketed(<<GenericArgument_Type(Named("Int"))>>))>>),
   Type_Path(<<PathSegment("dbent", PathArguments_None),
               PathSegment("Key",
       PathArguments_AngleBracketed(<<GenericArgument_Type(Named("String"))>>))>>),
   Named("Key"),
   Type_Path(<<PathSegment("Key", PathArguments_AngleBracketed(<<>>))>>),
   Type_Path(<<PathSegment("Key",
       PathArguments_AngleBracketed(<<GenericArgument_Type(Named("Int")),
                                      GenericArgument_Type(Named("String"))>>))>>),
   Type_Path(<<PathSegment("Key",
       PathArguments_AngleBracketed(<<GenericArgument_Lifetime("a")>>))>>),
   Named("String"),
   Type_Reference(Named("str"))}

\* The attribute lists drawn for a field, each attribute by the segments of
\* its path: none, #[label], #[doc], #[serde::label].
Attrs == {<<>>, <<<<"label">>>>, <<<<"doc">>>>, <<<<"serde", "label">>>>}

\* syn::Field
Field(ident, ty, attrs) == [ident |-> ident, ty |-> ty, attrs |-> attrs]

\* The name of the i-th named field.
FieldName(i) == "field" \o Int_to_string(i)

\* syn::Fields
Fields_Named(named) == [kind |-> "Named", named |-> named]

Fields_Unnamed(unnamed) == [kind |-> "Unnamed", unnamed |-> unnamed]

Fields_Unit == [kind |-> "Unit"]

\* The fields of a struct with named fields, by the type and attributes
\* `f[i]` of each.
NamedList(f) ==
  [i \in DOMAIN f |-> Field(Some(FieldName(i)), f[i][1], f[i][2])]

\* The fields of a tuple struct, which have no name.
UnnamedList(f) == [i \in DOMAIN f |-> Field(None, f[i][1], f[i][2])]

\* syn::Data
Data_Struct(fields) == [kind |-> "Struct", fields |-> fields]

Data_Enum == [kind |-> "Enum"]

Data_Union == [kind |-> "Union"]

\* syn::DeriveInput
DeriveInput(ident, data) == [ident |-> ident, data |-> data]

\* The declarations drawn over the fields `f`: a struct with these named
\* fields, a tuple struct of them and, without fields, a unit struct, an
\* enum and a union.
DeriveInputs(f) ==
  {DeriveInput("Model", Data_Struct(Fields_Named(NamedList(f))))}
    \cup (IF Len(f) > 0
          THEN {DeriveInput("Model", Data_Struct(Fields_Unnamed(UnnamedList(f))))}
          ELSE {DeriveInput("Model", d) :
                  d \in {Data_Struct(Fields_Unit), Data_Enum, Data_Union}})

\* syn::Error::new(span, message)
Error_new(span, message) == [span |-> span, message |-> message]

\* The span of a node: the node itself.
span(node) == node

\* A panic of the generation procedure, which returns nothing.
Panic(message) == [ok |-> FALSE, panic |-> message]

\* ------------------------------------------------------------------------
\* dbent-derive: generation
\* ------------------------------------------------------------------------

\* quote! { #x }: the tokens of x.
quote(x) == x

argument_type(fld, args) ==
  IF args.kind = "AngleBracketed"
  THEN IF Len(args.args) = 0
       THEN Err(Error_new(span(fld),
              "#[derive(Entity)] needs the Key to define a single generic argument type"))
       ELSE LET arg == args.args[1] IN
            IF arg.kind = "Type" THEN Ok(quote(arg.ty))
            ELSE Err(Error_new(span(fld),
                   "#[derive(Entity)] only supports types as generic argument for Key"))
  ELSE Err(Error_new(span(fld),
         "#[derive(Entity)] needs the Key to define a single generic argument type"))

\* single_key looking for the first field of type Key instead of looking at
\* the first field.
single_key_any_field(fields) ==
  IF fields.kind # "Named"
  THEN Err(Error_new(span(fields),
         "#[derive(Entity)] can only be used on structs with named fields"))
  ELSE LET keys == SelectSeq(fields.named,
                     LAMBDA f : /\ f.ty.kind = "Path"
                                /\ f.ty.segments[Len(f.ty.segments)].ident = "Key")
       IN IF Len(keys) = 0
          THEN Err(Error_new(span(fields),
                 "#[derive(Entity)] needs at least a single Key field defined"))
          ELSE LET fld == keys[1]
                   ty == argument_type(fld,
                           fld.ty.segments[Len(fld.ty.segments)].arguments)
               IN IF ~ty.ok THEN ty ELSE Ok(<<ty.val, quote(fld.ident)>>)

single_key(fields) ==
  IF fields.kind # "Named"
  THEN Err(Error_new(span(fields),
         "#[derive(Entity)] can only be used on structs with named fields"))
  ELSE IF Len(fields.named) = 0
  THEN Err(Error_new(span(fields),
         "#[derive(Entity)] needs at least a single Key field defined"))
  ELSE LET fld == fields.named[1] IN
       IF fld.ty.kind # "Path"
       THEN Err(Error_new(span(fld),
              "#[derive(Entity)] needs a single Key field defined as the first field in the struct"))
       ELSE IF Len(fld.ty.segments) = 0
       THEN Err(Error_new(span(fld),
              "#[derive(Entity)] needs at least a single Key field defined; no segments found"))
       ELSE LET seg == fld.ty.segments[Len(fld.ty.segments)] IN
            IF seg.ident # "Key"
            THEN Err(Error_new(span(fld),
                   "#[derive(Entity)] needs the first field to be a Key; aliasing the Key to something else breaks the macro"))
            ELSE LET ty == argument_type(fld, seg.arguments) IN
                 IF ~ty.ok THEN ty ELSE Ok(<<ty.val, quote(fld.ident)>>)

\* The implementation of Keyed emitted: `type KeyType = #key_type` and a
\* key() whose body is `Ok(&self.#ident)`.
impl_entity(inp) ==
  IF inp.data.kind = "Struct"
  THEN LET r == single_key(inp.data.fields) IN
       IF ~r.ok THEN r
       ELSE Ok([trait |-> "::dbent::Keyed", name |-> inp.ident,
                KeyType |-> r.val[1], key |-> [ok_ref_self |-> r.val[2]]])
  ELSE Panic("#[derive(Entity)] can only be used on structs")

\* attr.path.get_ident() is the only segment of a one-segment path.
marked_with_label(fld) ==
  \E i \in 1..Len(fld.attrs) :
    /\ Len(fld.attrs[i]) = 1
    /\ fld.attrs[i][1] = "label"

\* single_label taking the first marked field when several are marked.
single_label_first_marked(fields) ==
  IF fields.kind # "Named"
  THEN Err(Error_new(span(fields),
         "#[derive(Label)] can only be used on structs with named fields"))
  ELSE LET label_fields == SelectSeq(fields.named, marked_with_label) IN
       IF Len(label_fields) = 0
       THEN Err(Error_new(span(fields),
              "#[derive(Label)] needs to have 1 field marked with #[label]"))
       ELSE Ok(<<quote(label_fields[1].ty), quote(label_fields[1].ident)>>)

single_label(fields) ==
  IF fields.kind # "Named"
  THEN Err(Error_new(span(fields),
         "#[derive(Label)] can only be used on structs with named fields"))
  ELSE LET label_fields == SelectSeq(fields.named, marked_with_label) IN
       IF Len(label_fields) # 1
       THEN Err(Error_new(span(fields),
              "#[derive(Label)] needs to have 1 field marked with #[label]"))
       ELSE Ok(<<quote(label_fields[1].ty), quote(label_fields[1].ident)>>)

\* The implementation of Label emitted: `type LabelType = #label_type` and
\* a label() whose body is `Ok(&self.#ident)`.
impl_label(inp) ==
  IF inp.data.kind = "Struct"
  THEN LET r == single_label(inp.data.fields) IN
       IF ~r.ok THEN r
       ELSE Ok([trait |-> "::dbent::Label", name |-> inp.ident,
                LabelType |-> r.val[1], label |-> [ok_ref_self |-> r.val[2]]])
  ELSE Panic("#[derive(Label)] can only be used on structs")

\* One declaration, and no generation yet; the field of the other program
\* stays as constructed.
InitDerive ==
  /\ ftype = "Entity"
  /\ tparam = "Model"
  /\ field = Default(ftype)
  /\ replaced = [op |-> "default", arg |-> NoVal]
  /\ last = Call("default", NoVal, NoVal, field)
  /\ \E n \in 0..MaxFields :
       \E f \in [1..n -> Types \X Attrs] : input \in DeriveInputs(f)
  /\ output = NoVal

CallImplEntity ==
  /\ output' = [op |-> "impl_entity", res |-> impl_entity(input)]
  /\ UNCHANGED <<ftype, tparam, field, replaced, last, input>>

CallImplLabel ==
  /\ output' = [op |-> "impl_label", res |-> impl_label(input)]
  /\ UNCHANGED <<ftype, tparam, field, replaced, last, input>>

NextDerive == CallImplEntity \/ CallImplLabel

SpecDerive == InitDerive /\ [][NextDerive]_vars

\* ------------------------------------------------------------------------
\* Properties
\* ------------------------------------------------------------------------

\* C1: Entity::key() returns the wrapped Key itself in the Key variant
\* (present or absent inner value alike), the result of the contained
\* record's own key() in the Data variant, and Err(EntityEmpty) in the None
\* variant.
C1_EntityKey ==
  last.op = "Entity::key" =>
    /\ field.variant = "Key" => last.res = Ok(field.key)
    /\ field.variant = "Data" => last.res = T_key(Unbox(field.data))
    /\ field.variant = "None" => last.res = Err("EntityEmpty")

\* C1 witness: key() was called on a Key variant holding the absent Key and
\* returned that Key.
C1_Witness ==
  /\ last.op = "Entity::key"
  /\ field.variant = "Key"
  /\ Key_deref(field.key) = None
  /\ last.res.ok

\* C2: Entity::data() and data_mut() succeed exactly in the Data variant and
\* then return the contained record; in the Key variant both fail with
\* EntityNotFetched and in the None variant with EntityEmpty.
C2_EntityData ==
  last.op \in {"Entity::data", "Entity::data_mut"} =>
    /\ last.res.ok <=> last.self.variant = "Data"
    /\ last.self.variant = "Data" => last.res = Ok(last.self.data.boxed)
    /\ last.self.variant = "Key" => last.res = Err("EntityNotFetched")
    /\ last.self.variant = "None" => last.res = Err("EntityEmpty")

\* C2 witness: data_mut() was called on a Key variant and failed.
C2_Witness ==
  /\ last.op = "Entity::data_mut"
  /\ last.self.variant = "Key"
  /\ ~last.res.ok

\* C3: after the owner's replacements of an EntityLabel field, key() and
\* label() answer by the last one: after KeyLabel(k, l) they return k and l,
\* after a record they return the key and label of the record held, after
\* the empty state both fail with EntityLabelEmpty.
C3_EntityLabelLastReplacement ==
  /\ last.op = "EntityLabel::key" =>
       /\ replaced.op = "EntityLabel::KeyLabel" =>
            last.res = Ok(replaced.arg[1])
       /\ replaced.op = "EntityLabel::from" =>
            /\ field.variant = "Data"
            /\ last.res = T_key(field.data.boxed)
       /\ replaced.op \in
            {"default", "EntityLabel::None", "EntityLabel::default"} =>
            last.res = Err("EntityLabelEmpty")
  /\ last.op = "EntityLabel::label" =>
       /\ replaced.op = "EntityLabel::KeyLabel" =>
            last.res = Ok(replaced.arg[2])
       /\ replaced.op = "EntityLabel::from" =>
            /\ field.variant = "Data"
            /\ last.res = T_label(field.data.boxed)
       /\ replaced.op \in
            {"default", "EntityLabel::None", "EntityLabel::default"} =>
            last.res = Err("EntityLabelEmpty")

\* C3 witness: label() was called after a replacement by KeyLabel(k, l).
C3_Witness ==
  /\ last.op = "EntityLabel::label"
  /\ replaced.op = "EntityLabel::KeyLabel"
  /\ last.res.ok

\* C4: EntityLabel::data() and data_mut() succeed exactly in the Data
\* variant; in the KeyLabel variant both fail with EntityLabelNotFetched and
\* in the None variant with EntityLabelEmpty, never with another error.
C4_EntityLabelData ==
  last.op \in {"EntityLabel::data", "EntityLabel::data_mut"} =>
    /\ last.res.ok <=> last.self.variant = "Data"
    /\ last.self.variant = "Data" => last.res = Ok(last.self.data.boxed)
    /\ last.self.variant = "KeyLabel" =>
         last.res = Err("EntityLabelNotFetched")
    /\ last.self.variant = "None" => last.res = Err("EntityLabelEmpty")
    /\ ~last.res.ok =>
         last.res.err \in {"EntityLabelNotFetched", "EntityLabelEmpty"}

\* C4 witness: data() was called on a KeyLabel variant and failed.
C4_Witness ==
  /\ last.op = "EntityLabel::data"
  /\ last.self.variant = "KeyLabel"
  /\ ~last.res.ok

\* C5: Many::data() and data_mut() return the vector only in the Data
\* variant, with the same elements in the same order; in NotFetched both
\* fail with ManyNotFetched and in None with ManyEmpty.
C5_ManyData ==
  last.op \in {"Many::data", "Many::data_mut"} =>
    /\ last.res.ok <=> last.self.variant = "Data"
    /\ last.self.variant = "Data" =>
         /\ Len(last.res.val) = Len(last.self.data)
         /\ \A i \in 1..Len(last.self.data) :
              last.res.val[i] = last.self.data[i]
    /\ last.self.variant = "NotFetched" => last.res = Err("ManyNotFetched")
    /\ last.self.variant = "None" => last.res = Err("ManyEmpty")

\* C5 witness: data_mut() was called on a Data variant of two different
\* elements and returned them.
C5_Witness ==
  /\ last.op = "Many::data_mut"
  /\ last.self.variant = "Data"
  /\ Len(last.self.data) = 2
  /\ last.self.data[1] # last.self.data[2]
  /\ last.res.ok

\* C6 as stated: tag() succeeds if and only if key() succeeds.  It fails
\* for an implementor whose key() succeeds and whose label() fails.
C6_TagIffKey ==
  last.op = "Tagged::tag" => (last.res.ok <=> T_key(last.self).ok)

\* C6 amended: tag() succeeds if and only if key() and label() both
\* succeed; it fails with key()'s error when key() fails and otherwise with
\* label()'s error; on success the Tag's key is the rendering of the Key
\* ("None" when absent, else the decimal digits of its value) and its label
\* the rendering of the label.
C6_TagIffKeyAndLabel ==
  last.op = "Tagged::tag" =>
    LET k == T_key(last.self)
        l == T_label(last.self)
    IN /\ last.res.ok <=> (k.ok /\ l.ok)
       /\ ~k.ok => last.res = Err(k.err)
       /\ (k.ok /\ ~l.ok) => last.res = Err(l.err)
       /\ (k.ok /\ l.ok) =>
            /\ last.res.val.label = l.val
            /\ Key_deref(k.val) = None => last.res.val.key = "None"
            /\ Key_deref(k.val) = Some(0) => last.res.val.key = "0"
            /\ Key_deref(k.val) = Some(1) => last.res.val.key = "1"
            /\ last.res.val.key = Key_fmt(k.val)

\* C6 witness: tag() was called on a value whose key() succeeds and whose
\* label() fails, and failed with the label's error.
C6_Witness ==
  /\ last.op = "Tagged::tag"
  /\ T_key(last.self).ok
  /\ ~T_label(last.self).ok
  /\ last.res = Err(T_label(last.self).err)

\* C7: has_tag() is true if and only if key() succeeds and the Key it
\* returns holds a value; when key() fails, or succeeds with the absent Key,
\* it returns false and no failure.
C7_HasTag ==
  last.op = "Tagged::has_tag" =>
    LET k == T_key(last.self) IN
    /\ last.res \in BOOLEAN
    /\ ~k.ok => last.res = FALSE
    /\ (k.ok /\ k.val = Key(None)) => last.res = FALSE
    /\ (k.ok /\ k.val # Key(None)) => last.res = TRUE

\* C7 witness: has_tag() was called on an empty EntityLabel, whose key()
\* fails, and returned false.
C7_Witness ==
  /\ last.op = "Tagged::has_tag"
  /\ last.self = EntityLabel_None
  /\ ~T_key(last.self).ok
  /\ last.res = FALSE

\* C8: Key::new(v), Key::from(Some(v)) and Key::from(&Some(v)) dereference
\* to Some(v) and are equal; Key::from(None) and Key::from(&None)
\* dereference to None; no present Key, that of 0 included, equals the
\* absent Key; the absent Key renders as "None" and a present one as its
\* value renders.
C8_Key ==
  /\ last.op = "Key::new" =>
       /\ Key_deref(last.res) = Some(last.arg)
       /\ last.res = Key_from(Some(last.arg))
       /\ last.res = Key_from_ref(Some(last.arg))
       /\ last.res # Key_from(None)
       /\ last.res # Key_from_ref(None)
  /\ last.op \in {"Key::from", "Key::from_ref"} =>
       /\ Key_deref(last.res) = last.arg
       /\ last.arg # None =>
            /\ last.res = Key_new(last.arg[1])
            /\ last.res # Key_from(None)
            /\ last.res # Key_from_ref(None)
  /\ last.op = "Key::deref" =>
       /\ last.res = None <=> last.self = Key_from(None)
       /\ \A v \in K : last.res = Some(v) <=> last.self = Key_new(v)
  /\ last.op = "Key::fmt" =>
       /\ Key_deref(last.self) = None => last.res = "None"
       /\ \A v \in K :
            Key_deref(last.self) = Some(v) => last.res = Int_to_string(v)
       /\ Key_deref(last.self) = Some(0) => last.res = "0"

\* C8 witness: Key::from(&None) was called and returned a Key that is not
\* the Key of 0.
C8_Witness ==
  /\ last.op = "Key::from_ref"
  /\ last.arg = None
  /\ last.res # Key_new(0)

\* C9: a conversion never yields the empty state: a record r converts into
\* the Data variant of Entity and EntityLabel, whose data() is r; a Key k
\* converts with into_entity / to_entity into the Key variant, whose key()
\* is k; a vector s, the empty one included, converts into Many::Data(s).
C9_Conversions ==
  /\ last.op = "Entity::from" =>
       /\ Entity_is_data(field) /\ ~Entity_is_none(field)
       /\ Entity_data(field) = Ok(last.arg)
  /\ last.op = "EntityLabel::from" =>
       /\ EntityLabel_is_data(field) /\ ~EntityLabel_is_none(field)
       /\ EntityLabel_data(field) = Ok(last.arg)
  /\ last.op \in {"Key::into_entity", "Key::to_entity"} =>
       /\ Entity_is_key(field) /\ ~Entity_is_none(field)
       /\ Entity_key(field) = Ok(last.arg)
  /\ last.op = "Many::from" =>
       /\ Many_is_data(field) /\ ~Many_is_none(field)
       /\ ~Many_is_not_fetched(field)
       /\ Many_data(field) = Ok(last.arg)

\* C9 witness: the empty vector was converted into a Many.
C9_Witness ==
  /\ last.op = "Many::from"
  /\ last.arg = <<>>
  /\ field.variant = "Data"

\* C10: the default Key is absent; the default Entity, EntityLabel and Many
\* are their None variants (for Many neither NotFetched nor Data of the
\* empty vector), so key() and data() on them fail with EntityEmpty,
\* EntityLabelEmpty and ManyEmpty.
C10_Defaults ==
  /\ last.op = "Key::default" => Key_deref(last.res) = None
  /\ (last.op \in {"default", "Entity::default"} /\ ftype = "Entity") =>
       /\ Entity_is_none(field)
       /\ Entity_key(field) = Err("EntityEmpty")
       /\ Entity_data(field) = Err("EntityEmpty")
       /\ Entity_data_mut(field) = Err("EntityEmpty")
  /\ (last.op \in {"default", "EntityLabel::default"}
        /\ ftype = "EntityLabel") =>
       /\ EntityLabel_is_none(field)
       /\ EntityLabel_key(field) = Err("EntityLabelEmpty")
       /\ EntityLabel_label(field) = Err("EntityLabelEmpty")
       /\ EntityLabel_data(field) = Err("EntityLabelEmpty")
       /\ EntityLabel_data_mut(field) = Err("EntityLabelEmpty")
  /\ (last.op \in {"default", "Many::default"} /\ ftype = "Many") =>
       /\ Many_is_none(field)
       /\ ~Many_is_not_fetched(field)
       /\ field # Many_Data(<<>>)
       /\ Many_data(field) = Err("ManyEmpty")
       /\ Many_data_mut(field) = Err("ManyEmpty")

\* C10 witness: a Many holding data was replaced by Many::default().
C10_Witness ==
  /\ last.op = "Many::default"
  /\ last.self.variant = "Data"
  /\ field.variant = "None"

\* C11: impl_entity succeeds only on a struct with named fields whose
\* first field has a path type ending in Key with a type as first argument;
\* the key() emitted returns a reference to that first field and KeyType is
\* that argument.  A struct without fields, or whose first field is no Key
\* (a later one being a Key or not), gets a diagnostic and no code.
C11_ImplEntity ==
  (output # NoVal /\ output.op = "impl_entity") =>
    LET d == input.data
        res == output.res
        named == d.kind = "Struct" /\ d.fields.kind = "Named"
        isKey(ty) ==
          /\ ty.kind = "Path"
          /\ Len(ty.segments) > 0
          /\ ty.segments[Len(ty.segments)].ident = "Key"
        firstArg(ty) == ty.segments[Len(ty.segments)].arguments
    IN /\ res.ok =>
            /\ named
            /\ Len(d.fields.named) >= 1
            /\ isKey(d.fields.named[1].ty)
            /\ firstArg(d.fields.named[1].ty).kind = "AngleBracketed"
            /\ Len(firstArg(d.fields.named[1].ty).args) >= 1
            /\ firstArg(d.fields.named[1].ty).args[1].kind = "Type"
            /\ res.val.trait = "::dbent::Keyed"
            /\ res.val.key = [ok_ref_self |-> d.fields.named[1].ident]
            /\ res.val.KeyType = firstArg(d.fields.named[1].ty).args[1].ty
       /\ (named /\ Len(d.fields.named) = 0) =>
            ~res.ok /\ "err" \in DOMAIN res
       /\ (named /\ Len(d.fields.named) >= 1
             /\ ~isKey(d.fields.named[1].ty)) =>
            ~res.ok /\ "err" \in DOMAIN res

\* C11 witness: impl_entity returned a diagnostic for a struct whose first
\* field is a String and whose second field is a Key<Int>.
C11_Witness ==
  /\ output # NoVal
  /\ output.op = "impl_entity"
  /\ input.data.kind = "Struct"
  /\ input.data.fields.kind = "Named"
  /\ Len(input.data.fields.named) = 2
  /\ input.data.fields.named[1].ty = Named("String")
  /\ input.data.fields.named[2].ty =
       Type_Path(<<PathSegment("Key",
         PathArguments_AngleBracketed(<<GenericArgument_Type(Named("Int"))>>))>>)
  /\ ~output.res.ok

\* C12: impl_entity returns a diagnostic, and no implementation, whenever
\* the Key of the first field does not have exactly one type argument: no
\* argument list, an empty one, a first argument that is no type, or more
\* than one argument.
C12_KeyArguments ==
  (output # NoVal /\ output.op = "impl_entity"
     /\ input.data.kind = "Struct" /\ input.data.fields.kind = "Named"
     /\ Len(input.data.fields.named) >= 1
     /\ input.data.fields.named[1].ty.kind = "Path") =>
    LET ty == input.data.fields.named[1].ty
        seg == ty.segments[Len(ty.segments)]
        oneType ==
          /\ seg.arguments.kind = "AngleBracketed"
          /\ Len(seg.arguments.args) = 1
          /\ seg.arguments.args[1].kind = "Type"
    IN (seg.ident = "Key" /\ ~oneType) =>
         ~output.res.ok /\ "err" \in DOMAIN output.res

\* C13: impl_entity and impl_label fail only by returning a diagnostic and
\* never panic: for an enum, a union, a tuple struct and a unit struct they
\* return an error.
C13_NoPanic ==
  output # NoVal =>
    /\ "panic" \notin DOMAIN output.res
    /\ (input.data.kind # "Struct" \/ input.data.fields.kind # "Named") =>
         ~output.res.ok /\ "err" \in DOMAIN output.res

\* C14: on a struct with named fields impl_label succeeds if and only if
\* exactly one field carries #[label], wherever it stands; the label()
\* emitted returns a reference to that field and LabelType is its declared
\* type; with no or several marked fields it returns a diagnostic.
C14_ImplLabel ==
  (output # NoVal /\ output.op = "impl_label"
     /\ input.data.kind = "Struct" /\ input.data.fields.kind = "Named") =>
    LET named == input.data.fields.named
        res == output.res
        marked == {i \in 1..Len(named) :
                     \E j \in 1..Len(named[i].attrs) :
                       named[i].attrs[j] = <<"label">>}
    IN /\ res.ok <=> Cardinality(marked) = 1
       /\ res.ok =>
            \A i \in marked :
              /\ res.val.trait = "::dbent::Label"
              /\ res.val.label = [ok_ref_self |-> named[i].ident]
              /\ res.val.LabelType = named[i].ty
       /\ ~res.ok => "err" \in DOMAIN res

\* C14 witness: impl_label succeeded on a struct whose second field, and not
\* its first, carries #[label].
C14_Witness ==
  /\ output # NoVal
  /\ output.op = "impl_label"
  /\ input.data.kind = "Struct"
  /\ input.data.fields.kind = "Named"
  /\ Len(input.data.fields.named) = 2
  /\ input.data.fields.named[1].attrs = <<>>
  /\ input.data.fields.named[2].attrs = <<<<"label">>>>
  /\ output.res.ok
  /\ output.res.val.label = [ok_ref_self |-> Some(FieldName(2))]

\* C15 as stated: Entity::key() succeeds in every state but None, and fails
\* with EntityEmpty only in the None variant, whatever the record type.  It
\* fails for a Data variant holding a record whose own key() fails.
C15_KeyDefinedWhenNotEmpty ==
  last.op = "Entity::key" =>
    /\ last.res.ok <=> field.variant # "None"
    /\ last.res = Err("EntityEmpty") => field.variant = "None"

\* C15 amended: Entity::key() always succeeds in the Key variant, fails with
\* EntityEmpty in the None variant, and in the Data variant succeeds exactly
\* when the record's own key() succeeds, failing with the record's error
\* otherwise; so EntityEmpty comes from the None variant or from a record
\* failing with it (a nested empty Entity).
C15_KeyDefinedByRecord ==
  last.op = "Entity::key" =>
    LET rec == field.data.boxed IN
    /\ last.res.ok <=>
         \/ field.variant = "Key"
         \/ field.variant = "Data" /\ T_key(rec).ok
    /\ (field.variant = "Data" /\ ~T_key(rec).ok) =>
         last.res = Err(T_key(rec).err)
    /\ last.res = Err("EntityEmpty") <=>
         \/ field.variant = "None"
         \/ field.variant = "Data" /\ T_key(rec) = Err("EntityEmpty")

\* C15 witness: key() was called on a Data variant holding an empty Entity
\* and failed with EntityEmpty.
C15_Witness ==
  /\ last.op = "Entity::key"
  /\ field = Entity_Data(Box(Entity_None))
  /\ last.res = Err("EntityEmpty")

\* C16: the variant of the field changes only by a replacement of its
\* owner: key(), label(), tag(), has_tag(), data() and the predicates leave
\* the field as it is, so does a failing data_mut(), and a successful
\* data_mut() changes at most the record or vector held, after which key()
\* is that of the record written.
C16_Frame ==
  [][LET op == last'.op
         ReadOps ==
           {"Entity::key", "Entity::data", "Entity::is_key",
            "Entity::is_data", "Entity::is_none",
            "EntityLabel::key", "EntityLabel::label", "EntityLabel::data",
            "EntityLabel::is_keylabel", "EntityLabel::is_data",
            "EntityLabel::is_none", "Tagged::tag", "Tagged::has_tag",
            "Many::data", "Many::is_data", "Many::is_not_fetched",
            "Many::is_none"}
         DataMutOps ==
           {"Entity::data_mut", "EntityLabel::data_mut", "Many::data_mut"}
         ReplaceOps ==
           {"Key::into_entity", "Key::to_entity", "Entity::from",
            "Entity::None", "Entity::default", "EntityLabel::KeyLabel",
            "EntityLabel::from", "EntityLabel::None", "EntityLabel::default",
            "Many::from", "Many::NotFetched", "Many::None", "Many::default"}
     IN /\ op \in ReadOps => field' = field
        /\ op \in DataMutOps =>
             /\ field'.variant = field.variant
             /\ ~last'.res.ok => field' = field
             /\ last'.res.ok => field' = [field EXCEPT !.data = field'.data]
        /\ (op = "Entity::data_mut" /\ last'.res.ok) =>
             Entity_key(field') = T_key(last'.arg)
        /\ (op = "EntityLabel::data_mut" /\ last'.res.ok) =>
             EntityLabel_key(field') = T_key(last'.arg)
        /\ field'.variant # field.variant => op \in ReplaceOps
    ]_vars

\* C16 witness: a successful data_mut() wrote a record with another key
\* into an Entity, which is still in its Data variant.
C16_Witness ==
  /\ last.op = "Entity::data_mut"
  /\ last.res.ok
  /\ last.self.variant = "Data"
  /\ field.variant = "Data"
  /\ field # last.self
  /\ Entity_key(field) # Entity_key(last.self)

====
